---- MODULE Spec2Model ----
(***************************************************************************)
(* jycli: the Table component (jycli/components/table.py), the box styles  *)
(* it draws with (jycli/components/box.py) and the Console it renders on   *)
(* (jycli/console/__init__.py).                                            *)
(*                                                                         *)
(* A string is a sequence of characters; a character is a one-element      *)
(* TLA+ string.  A box-drawing character outside ASCII is written by its   *)
(* code point ("u250C"); it is one element, hence one character wide.      *)
(***************************************************************************)
EXTENDS Integers, Sequences, FiniteSets, TLC

VARIABLES
    name,         \* Table.name
    columns,      \* Table.columns
    rows,         \* Table.rows
    box,          \* Table.box, by the name of the box style
    given,        \* the argument lists of the accepted add_row calls
    lastCall,     \* the last call on the table, with its arguments
    again,        \* whether the call before it was the same call
    err,          \* the exception the last call raised, or "none"
    out,          \* the lines of the string the last call returned
    max_lengths,  \* the column widths the last render computed
    wrapped,      \* chunked_header and every chunked_row of the last render
    _raised,      \* Application._raised
    return_value  \* Application.return_value

vars ==
    <<name, columns, rows, box, given, lastCall, again, err, out, max_lengths,
      wrapped, _raised, return_value>>

(***************************************************************************)
(* Bounds of the model.                                                    *)
(***************************************************************************)
MaxCols == 2
MaxRows == 2
MinWidth == 3
MaxWidth == 9

(***************************************************************************)
(* Program constants.                                                      *)
(***************************************************************************)
\* commands.get_terminal_size: cr = (24, 132) when every detection step fails
DefaultColumns == 132
\* len(u(" | ")): the separator between two columns
SeparatorLen == 3
\* len(u("| ")) and len(u(" |")): the left and the right edge
LeftEdgeLen == 2
RightEdgeLen == 2

NL == "\n"
SP == " "

(***************************************************************************)
(* Python built-ins used by the component.                                 *)
(***************************************************************************)
\* a list comprehension: the list is built once, then indexed
List(f) == <<>> \o f

RECURSIVE SumSeq(_)
SumSeq(s) == IF s = <<>> THEN 0 ELSE Head(s) + SumSeq(Tail(s))

\* s * n: the empty string when n <= 0
StrTimes(s, n) ==
    IF n < 1 \/ s = <<>> THEN <<>>
    ELSE List([i \in 1..(Len(s) * n) |-> s[((i - 1) % Len(s)) + 1]])

Repeat(c, n) == StrTimes(<<c>>, n)

RECURSIVE Concat(_)
Concat(ss) == IF ss = <<>> THEN <<>> ELSE Head(ss) \o Concat(Tail(ss))

RECURSIVE Join(_, _)
\* sep.join(ss)
Join(sep, ss) ==
    IF ss = <<>> THEN <<>>
    ELSE IF Len(ss) = 1 THEN ss[1]
    ELSE ss[1] \o sep \o Join(sep, Tail(ss))

\* s.ljust(w)
ljust(s, w) == IF Len(s) >= w THEN s ELSE s \o Repeat(SP, w - Len(s))

\* s.center(w) (CPython: the left margin takes pad/2 + (pad & w & 1))
center(s, w) ==
    IF Len(s) >= w THEN s
    ELSE LET pad == w - Len(s)
             left == (pad \div 2) + (IF pad % 2 = 1 /\ w % 2 = 1 THEN 1 ELSE 0)
         IN Repeat(SP, left) \o s \o Repeat(SP, pad - left)

FirstNL(s) ==
    IF \E i \in 1..Len(s) : s[i] = NL
    THEN CHOOSE i \in 1..Len(s) : s[i] = NL /\ \A j \in 1..(i - 1) : s[j] # NL
    ELSE 0

RECURSIVE splitlines(_)
\* s.splitlines(): no line for the empty string, none after a final newline
splitlines(s) ==
    IF s = <<>> THEN <<>>
    ELSE LET i == FirstNL(s)
         IN IF i = 0 THEN <<s>>
            ELSE <<SubSeq(s, 1, i - 1)>> \o splitlines(SubSeq(s, i + 1, Len(s)))

DigitChars == <<"0", "1", "2", "3", "4", "5", "6", "7", "8", "9">>

RECURSIVE Digits(_)
Digits(n) ==
    IF n < 10 THEN <<DigitChars[n + 1]>>
    ELSE Digits(n \div 10) \o <<DigitChars[(n % 10) + 1]>>

\* str(_val): a value is an int or a str
str(v) ==
    IF v.t = "int"
    THEN (IF v.n < 0 THEN <<"-">> \o Digits(0 - v.n) ELSE Digits(v.n))
    ELSE v.s

IntVal(n) == [t |-> "int", n |-> n, s |-> <<>>]
StrVal(s) == [t |-> "str", n |-> 0, s |-> s]

RECURSIVE batched(_, _)
\* polyfills.itertools.batched on a string: chunks of n characters
batched(s, n) ==
    IF n < 1 \/ s = <<>> THEN <<>>
    ELSE IF Len(s) <= n THEN <<s>>
    ELSE <<SubSeq(s, 1, n)>> \o batched(SubSeq(s, n + 1, Len(s)), n)

RECURSIVE flatten(_, _)
\* flatten(lists, max_depth=1, empty_placeholder=p)
flatten(lists, p) ==
    IF lists = <<>> THEN <<>>
    ELSE (IF Head(lists) = <<>> THEN <<p>> ELSE Head(lists))
         \o flatten(Tail(lists), p)

(***************************************************************************)
(* Inputs.                                                                 *)
(***************************************************************************)
Names == {<<"T", "b", "l">>}

Label(i) == IF i % 2 = 1 THEN <<"A", NL, "b", "c">> ELSE <<"B", "c", "d">>

\* the columns argument of Table.__init__: n labels, or one empty label
ColumnLists ==
    {[i \in 1..n |-> Label(i)] : n \in 0..MaxCols} \cup {<<<<>>>>}

Values == <<StrVal(<<"x", "y", "z", NL, NL, "w">>), IntVal(12), StrVal(<<>>)>>

\* the argument lists of add_row: n empty strings, or the values in turn
ArgLists ==
    UNION {{[i \in 1..n |-> StrVal(<<>>)],
            [i \in 1..n |-> Values[((i - 1) % Len(Values)) + 1]]}
           : n \in 0..(MaxCols + 1)}

\* the box argument of Table.__init__ (default: SQUARE)
BoxNames == {"SQUARE", "MARKDOWN"}

NoCall == [op |-> "none"]

(***************************************************************************)
(* Box styles (components/box.py).                                         *)
(***************************************************************************)
\* Box.__init__: the named glyphs of the eight zones
Box(b, ascii) ==
    [ascii |-> ascii,
     top_left |-> b.top[1], top |-> b.top[2],
     top_divider |-> b.top[3], top_right |-> b.top[4],
     head_left |-> b.head[1], head_vertical |-> b.head[3],
     head_right |-> b.head[4],
     head_row_left |-> b.head_row[1], head_row_horizontal |-> b.head_row[2],
     head_row_cross |-> b.head_row[3], head_row_right |-> b.head_row[4],
     mid_left |-> b.mid[1], mid_vertical |-> b.mid[3], mid_right |-> b.mid[4],
     row_left |-> b.row[1], row_horizontal |-> b.row[2],
     row_cross |-> b.row[3], row_right |-> b.row[4],
     foot_row_left |-> b.foot_row[1], foot_row_horizontal |-> b.foot_row[2],
     foot_row_cross |-> b.foot_row[3], foot_row_right |-> b.foot_row[4],
     foot_left |-> b.foot[1], foot_vertical |-> b.foot[3],
     foot_right |-> b.foot[4],
     bottom_left |-> b.bottom[1], bottom |-> b.bottom[2],
     bottom_divider |-> b.bottom[3], bottom_right |-> b.bottom[4]]

ASCII ==
    Box([top      |-> <<"+", "-", "-", "+">>,
         head     |-> <<"|", " ", "|", "|">>,
         head_row |-> <<"|", "-", "+", "|">>,
         mid      |-> <<"|", " ", "|", "|">>,
         row      |-> <<"|", "-", "+", "|">>,
         foot_row |-> <<"|", "-", "+", "|">>,
         foot     |-> <<"|", " ", "|", "|">>,
         bottom   |-> <<"+", "-", "-", "+">>], TRUE)

SQUARE ==
    Box([top      |-> <<"u250C", "u2500", "u252C", "u2510">>,
         head     |-> <<"u2502", " ", "u2502", "u2502">>,
         head_row |-> <<"u251C", "u2500", "u253C", "u2524">>,
         mid      |-> <<"u2502", " ", "u2502", "u2502">>,
         row      |-> <<"u251C", "u2500", "u253C", "u2524">>,
         foot_row |-> <<"u251C", "u2500", "u253C", "u2524">>,
         foot     |-> <<"u2502", " ", "u2502", "u2502">>,
         bottom   |-> <<"u2514", "u2500", "u2534", "u2518">>], FALSE)

MARKDOWN ==
    Box([top      |-> <<" ", " ", " ", " ">>,
         head     |-> <<"|", " ", "|", "|">>,
         head_row |-> <<"|", "-", "|", "|">>,
         mid      |-> <<"|", " ", "|", "|">>,
         row      |-> <<"|", "-", "|", "|">>,
         foot_row |-> <<"|", "-", "|", "|">>,
         foot     |-> <<"|", " ", "|", "|">>,
         bottom   |-> <<" ", " ", " ", " ">>], TRUE)

\* the module attribute a box name stands for
BoxOf(b) ==
    CASE b = "ASCII" -> ASCII
      [] b = "SQUARE" -> SQUARE
      [] b = "MARKDOWN" -> MARKDOWN

(***************************************************************************)
(* Python values (Application.return_value).                               *)
(***************************************************************************)
\* a Python value main() may return: its type, its truth value, its str()
PyValue(type, truthy, text) == [type |-> type, truthy |-> truthy, str |-> text]

PyNone == PyValue("NoneType", FALSE, "None")
PyTrue == PyValue("bool", TRUE, "True")
PyFalse == PyValue("bool", FALSE, "False")

(***************************************************************************)
(* Console (console/__init__.py).                                          *)
(***************************************************************************)
None == [some |-> FALSE, n |-> 0]
Some(n) == [some |-> TRUE, n |-> n]

\* Console.__init__: _width is kept only when str(width).isdigit()
Console_width(width) ==
    IF width.some /\ width.n >= 0 THEN Some(width.n) ELSE None

\* Console.get_terminal_size().columns, behind Console.__getattr__('width')
get_terminal_size_columns(_width, detected) ==
    IF _width.some THEN _width.n ELSE detected

\* what is_terminal reads: force_terminal ("None", "True" or "False"), the
\* FORCE_COLOR variable, java.lang.System.console(), file.isatty ("absent",
\* "True", "False" or "ValueError"); is_dumb_terminal reads TERM
Console(force_terminal, force_color, java_console, isatty, TERM) ==
    [force_terminal |-> force_terminal, force_color |-> force_color,
     java_console |-> java_console, isatty |-> isatty, TERM |-> TERM]

Consoles ==
    {Console("None", FALSE, FALSE, "True", "xterm"),
     Console("None", TRUE, FALSE, "absent", "dumb"),
     Console("None", FALSE, FALSE, "False", "xterm")}

\* Console.is_terminal
is_terminal(console) ==
    IF console.force_terminal # "None" THEN console.force_terminal = "True"
    ELSE IF console.force_color THEN TRUE
    ELSE IF console.java_console THEN TRUE
    ELSE IF console.isatty = "absent" THEN FALSE
    ELSE console.isatty = "True"

\* Console.is_dumb_terminal
is_dumb_terminal(console) ==
    is_terminal(console) /\ console.TERM \in {"dumb", "unknown"}

(***************************************************************************)
(* Table.__init__                                                          *)
(***************************************************************************)
Init ==
    /\ name \in Names
    /\ columns \in ColumnLists
    /\ rows = <<>>
    /\ box \in BoxNames
    /\ given = <<>>
    /\ lastCall = NoCall
    /\ again = FALSE
    /\ err = "none"
    /\ out = <<>>
    /\ max_lengths = <<>>
    /\ wrapped = <<>>
    /\ _raised = FALSE
    /\ return_value = PyNone

(***************************************************************************)
(* Table.add_row                                                           *)
(***************************************************************************)
\* add_row that appends before it checks the number of values
add_row_checkAfter(args) ==
    /\ Len(rows) < MaxRows
    /\ lastCall' = [op |-> "add_row", nargs |-> Len(args)]
    /\ again' = FALSE
    /\ out' = <<>>
    /\ max_lengths' = <<>>
    /\ wrapped' = <<>>
    /\ rows' = Append(rows, [i \in 1..Len(args) |-> str(args[i])])
    /\ given' = IF Len(args) # Len(columns) THEN given ELSE Append(given, args)
    /\ err' = IF Len(args) # Len(columns) THEN "Exception" ELSE "none"
    /\ UNCHANGED <<name, columns, box, _raised, return_value>>

\* add_row that rejects only a row that is too short
add_row_tooShort(args) ==
    /\ Len(rows) < MaxRows
    /\ lastCall' = [op |-> "add_row", nargs |-> Len(args)]
    /\ again' = FALSE
    /\ out' = <<>>
    /\ max_lengths' = <<>>
    /\ wrapped' = <<>>
    /\ IF Len(args) < Len(columns)
       THEN /\ err' = "Exception"
            /\ UNCHANGED <<rows, given>>
       ELSE /\ err' = "none"
            /\ rows' = Append(rows, [i \in 1..Len(args) |-> str(args[i])])
            /\ given' = Append(given, args)
    /\ UNCHANGED <<name, columns, box, _raised, return_value>>

add_row(args) ==
    /\ Len(rows) < MaxRows \/ Len(args) # Len(columns)
    /\ lastCall' = [op |-> "add_row", nargs |-> Len(args)]
    /\ again' = FALSE
    /\ out' = <<>>
    /\ max_lengths' = <<>>
    /\ wrapped' = <<>>
    /\ IF Len(args) # Len(columns)
       THEN /\ err' = "Exception"
            /\ UNCHANGED <<rows, given>>
       ELSE /\ err' = "none"
            /\ rows' = Append(rows, [i \in 1..Len(args) |-> str(args[i])])
            /\ given' = Append(given, args)
    /\ UNCHANGED <<name, columns, box, _raised, return_value>>

AddRow == \E args \in ArgLists : add_row(args)

(***************************************************************************)
(* Table.__console_print__                                                 *)
(***************************************************************************)
MaxOf(ws) == CHOOSE m \in {ws[i] : i \in DOMAIN ws} : \A i \in DOMAIN ws : ws[i] <= m
MinOf(ws) == CHOOSE m \in {ws[i] : i \in DOMAIN ws} : \A i \in DOMAIN ws : ws[i] >= m

\* an index that takes the last position holding v
IndexOf_last(ws, v) ==
    CHOOSE i \in DOMAIN ws : ws[i] = v /\ \A j \in (i + 1)..Len(ws) : ws[j] # v

\* ws.index(v): the first position holding v
IndexOf(ws, v) ==
    CHOOSE i \in DOMAIN ws : ws[i] = v /\ \A j \in 1..(i - 1) : ws[j] # v

\* a fallback that is taken back on a terminal that is not dumb
SelectBox_restores(b, term, dumb) ==
    IF ~term \/ dumb THEN (IF ~BoxOf(b).ascii THEN "ASCII" ELSE b)
    ELSE IF b = "ASCII" THEN "SQUARE"
    ELSE b

\* a fallback that forgets the console that is not a terminal
SelectBox_onlyDumb(b, term, dumb) ==
    IF dumb /\ ~BoxOf(b).ascii THEN "ASCII" ELSE b

\* Table.box after the fallback to ASCII
SelectBox(b, term, dumb) ==
    IF (~term \/ dumb) /\ ~BoxOf(b).ascii THEN "ASCII" ELSE b

\* drawing with the box read before the fallback
RenderBox_stale(b, term, dumb) == b

\* self.box as the drawing code reads it: after the fallback
RenderBox(b, term, dumb) == SelectBox(b, term, dumb)

\* len(column) and len(str(row[index])) of the longest cell, per column
NaturalLengths(cols, rws) ==
    List([index \in 1..Len(cols) |->
             MaxOf(<<Len(cols[index])>>
                   \o [r \in 1..Len(rws) |-> Len(rws[r][index])])])

\* max_lengths before the adjustment
InitialLengths(max_width, cols, rws) ==
    IF ~max_width.some
    THEN NaturalLengths(cols, rws)
    ELSE List([index \in 1..Len(cols) |-> max_width.n \div Len(cols)])

\* an overhead that forgets the right edge
BorderOverhead_oneEdge(n) == SeparatorLen * (n - 1) + LeftEdgeLen

\* the characters of a line that are not cell content
BorderOverhead(n) ==
    SeparatorLen * (n - 1) + (LeftEdgeLen + RightEdgeLen)

Difference(ws, n, w) == SumSeq(ws) + BorderOverhead(n) - w

\* a reduction that takes everything from the first column
Reduce_firstColumn(ws, k) == [ws EXCEPT ![1] = @ - k]

RECURSIVE Reduce(_, _)
Reduce(ws, k) ==
    IF k < 1 THEN ws
    ELSE Reduce([ws EXCEPT ![IndexOf(ws, MaxOf(ws))] = @ - 1], k - 1)

RECURSIVE Increase(_, _)
Increase(ws, k) ==
    IF k < 1 THEN ws
    ELSE Increase([ws EXCEPT ![IndexOf(ws, MinOf(ws))] = @ + 1], k - 1)

\* an adjustment without the reducing branch
AdjustLengths_onlyGrow(ws, difference) ==
    IF difference < 0 THEN Increase(ws, 0 - difference) ELSE ws

\* max_lengths after "ALWAYS recalculate each column's max length"
AdjustLengths(ws, difference) ==
    IF difference > 0 THEN Reduce(ws, difference)
    ELSE IF difference < 0 THEN Increase(ws, 0 - difference)
    ELSE ws

\* the wrapped lines of one header label
ChunkedHeaderCell(label, w) ==
    LET ls == splitlines(Join(<<NL>>, batched(label, w)))
    IN List([k \in 1..Len(ls) |-> ljust(ls[k], w)])

\* a cell cut at the column width: only the first chunk of a paragraph
ChunkedRowCell_cut(cell, w) ==
    LET paragraphs == splitlines(cell)
    IN List([k \in 1..Len(paragraphs) |->
                IF Len(paragraphs[k]) <= w \/ w < 1
                THEN ljust(paragraphs[k], w)
                ELSE SubSeq(paragraphs[k], 1, w)])

\* the wrapped lines of one data cell
ChunkedRowCell(cell, w) ==
    LET paragraphs == splitlines(cell)
        ls == flatten(List([k \in 1..Len(paragraphs) |->
                                   batched(paragraphs[k], w)]), <<>>)
    IN List([k \in 1..Len(ls) |-> ljust(ls[k], w)])

\* columns left as long as their own text makes them
FillChunks_noFill(chunked, ws) == chunked

\* extend every column with blank lines up to the longest one
FillChunks(chunked, ws) ==
    LET longest == MaxOf(List([i \in 1..Len(chunked) |-> Len(chunked[i])]))
    IN List([i \in 1..Len(chunked) |->
                chunked[i]
                \o [k \in 1..(longest - Len(chunked[i])) |->
                       Repeat(SP, ws[i])]])

\* chunked_header after the fill
ChunkedHeader(cols, ws) ==
    FillChunks(List([i \in 1..Len(cols) |-> ChunkedHeaderCell(cols[i], ws[i])]),
               ws)

\* chunked_row after the fill
ChunkedRow(row, ws) ==
    FillChunks(List([i \in 1..Len(row) |-> ChunkedRowCell(row[i], ws[i])]), ws)

\* one framed line per tuple of zip(*chunked)
ContentLines(left, vertical, right, chunked) ==
    LET n == MinOf(List([i \in 1..Len(chunked) |-> Len(chunked[i])]))
    IN List([k \in 1..n |->
                <<left, SP>>
                \o Join(<<SP, vertical, SP>>,
                        List([i \in 1..Len(chunked) |-> chunked[i][k]]))
                \o <<SP, right>>])

\* top border, header separator and bottom border
BorderLine(left, fill, divider, right, ws) ==
    <<left>>
    \o Join(<<divider>>, List([i \in 1..Len(ws) |-> Repeat(fill, ws[i] + 2)]))
    \o <<right>>

\* the separator between two data rows
RowSeparator(b, ws) ==
    <<b.row_left, SP>>
    \o Join(<<SP, b.row_cross, SP>>,
            List([i \in 1..Len(ws) |-> Repeat(b.row_horizontal, ws[i])]))
    \o <<SP, b.row_right>>

\* one item of the list `table`, as the lines it gives once the list is
\* joined with "\n": '\n'.join of no line at all is one empty line
Item(kind, ls) ==
    IF ls = <<>> THEN <<[kind |-> kind, text |-> <<>>]>>
    ELSE List([k \in 1..Len(ls) |-> [kind |-> kind, text |-> ls[k]]])

\* a separator after every row, the last one included
HasRowSeparator_everyRow(r, nrows) == (r - 1) < nrows

\* whether row r (1-based) is followed by a row separator
HasRowSeparator(r, nrows) == (r - 1) < nrows - 1

RowItems(rws, b, ws) ==
    Concat(List([r \in 1..Len(rws) |->
        Item("body",
             ContentLines(b.mid_left, b.mid_vertical, b.mid_right,
                          ChunkedRow(rws[r], ws)))
        \o (IF HasRowSeparator(r, Len(rws))
            THEN Item("row", <<RowSeparator(b, ws)>>)
            ELSE <<>>)]))

\* "\n".join(table), line by line
TableLines(nm, cols, rws, b, ws, w) ==
    Item("blank", <<StrTimes(<<>>, w)>>)
    \o Item("name", <<center(nm, w)>>)
    \o Item("top", <<BorderLine(b.top_left, b.top, b.top_divider,
                                b.top_right, ws)>>)
    \o Item("head",
            ContentLines(b.head_left, b.head_vertical, b.head_right,
                         ChunkedHeader(cols, ws)))
    \o Item("head_row", <<BorderLine(b.head_row_left, b.head_row_horizontal,
                                     b.head_row_cross, b.head_row_right, ws)>>)
    \o RowItems(rws, b, ws)
    \o Item("bottom", <<BorderLine(b.bottom_left, b.bottom, b.bottom_divider,
                                   b.bottom_right, ws)>>)

\* whether batched is called with a chunk size below 1; what the polyfill
\* does then is not fixed by this repository: it may raise or yield no chunk
BatchedOutcomes(ws) ==
    IF \E i \in 1..Len(ws) : ws[i] < 1 THEN {"raises", "empty"} ELSE {"chunks"}

\* the console a table is printed on: Console(width=max_width) for
\* Table.render, any console for Console.print
__console_print__(console, width, detected) ==
    LET _width == Console_width(width)
        max_width == Some(get_terminal_size_columns(_width, detected))
        term == is_terminal(console)
        dumb == is_dumb_terminal(console)
        n == Len(columns)
        call == [op |-> "render", width |-> width, columns |-> max_width.n,
                 is_terminal |-> term, is_dumb |-> dumb]
    IN /\ lastCall' = call
       /\ again' = (lastCall = call)
       /\ box' = SelectBox(box, term, dumb)
       /\ IF n = 0
          THEN \* no column: max() or min() of an empty list, in the
               \* adjustment or at header_longest_chunk
               /\ err' = "ValueError"
               /\ out' = <<>>
               /\ max_lengths' = <<>>
               /\ wrapped' = <<>>
          ELSE LET initial == InitialLengths(max_width, columns, rows)
                   ws == AdjustLengths(initial,
                                       Difference(initial, n, max_width.n))
               IN /\ max_lengths' = ws
                  /\ \E outcome \in BatchedOutcomes(ws) :
                        IF outcome = "raises"
                        THEN /\ err' = "ValueError"
                             /\ out' = <<>>
                             /\ wrapped' = <<>>
                        ELSE /\ err' = "none"
                             /\ wrapped' =
                                   <<ChunkedHeader(columns, ws)>>
                                   \o [r \in 1..Len(rows) |->
                                          ChunkedRow(rows[r], ws)]
                             /\ out' = TableLines(name, columns, rows,
                                      BoxOf(RenderBox(box, term, dumb)),
                                      ws, max_width.n)
       /\ UNCHANGED <<name, columns, rows, given, _raised, return_value>>

\* what commands.get_terminal_size() finds
DetectedColumns == {MaxWidth + 1, DefaultColumns}

\* the max_width argument of Table.render with the detected size: a detected
\* size is read only when the console has no width of its own
RenderCalls ==
    {<<Some(n), DefaultColumns>> : n \in MinWidth..MaxWidth}
        \cup {<<Some(0 - 1), MaxWidth + 1>>}
        \cup {<<None, d>> : d \in DetectedColumns}

\* what the console is decides the box and never a width: every call is made
\* on a terminal, and two of them on each of the other consoles as well
OffTerminalCalls == {<<Some(MaxWidth), DefaultColumns>>, <<None, MaxWidth + 1>>}

Render ==
    \E console \in Consoles, c \in RenderCalls :
        /\ \/ is_terminal(console) /\ ~is_dumb_terminal(console)
           \/ c \in OffTerminalCalls
        /\ __console_print__(console, c[1], c[2])

Next == AddRow \/ Render

Spec == Init /\ [][Next]_vars

(***************************************************************************)
(* Vocabulary of the properties.                                           *)
(***************************************************************************)
Rendered == lastCall.op = "render" /\ err = "none"

NCols == Len(columns)

KindsOf(o) == [k \in 1..Len(o) |-> o[k].kind]

CountKind(o, kind) == Cardinality({k \in 1..Len(o) : o[k].kind = kind})

\* the lines from the top border to the bottom border
GridKinds == {"top", "head", "head_row", "body", "row", "bottom"}

\* the 7-bit characters the box styles and the cells are made of
Ascii7 ==
    {" ", "+", "-", "|", "=", "A", "B", "c", "d", "x", "y", "z",
     "0", "1", "2", "3", "4", "5", "6", "7", "8", "9"}

\* the positions of the border glyphs in a header or body line
GlyphPositions(ws) ==
    {1, SumSeq(ws) + 3 * Len(ws) + 1}
        \cup {SumSeq(SubSeq(ws, 1, i)) + 3 * i + 1 : i \in 1..(Len(ws) - 1)}

BorderGlyphs7Bit(o, ws) ==
    \A k \in 1..Len(o) :
        /\ o[k].kind \in {"top", "head_row", "row", "bottom"}
              => \A j \in 1..Len(o[k].text) : o[k].text[j] \in Ascii7
        /\ (o[k].kind \in {"head", "body"} /\ o[k].text # <<>>)
              => /\ o[k].text[1] \in Ascii7
                 /\ o[k].text[Len(o[k].text)] \in Ascii7
                 /\ (\A i \in 1..Len(ws) : ws[i] >= 1)
                       => \A j \in GlyphPositions(ws) : o[k].text[j] \in Ascii7

LineOfKind(o, kind) == o[CHOOSE k \in 1..Len(o) : o[k].kind = kind]

(***************************************************************************)
(* C1.  Width matching: for a table with N >= 1 columns and an explicit    *)
(* render width W >= border overhead + N, every line of the grid (top      *)
(* border, header lines, header separator, body lines, row separators,     *)
(* bottom border) is exactly W characters long.  The overhead is the one   *)
(* the renderer computes, 4 + 3 * (N - 1).                                 *)
(***************************************************************************)
C1_WidthMatching ==
    (/\ lastCall.op = "render"
     /\ lastCall.width.some
     /\ NCols >= 1
     /\ lastCall.width.n >= (4 + 3 * (NCols - 1)) + NCols)
        => /\ err = "none"
           /\ \A k \in 1..Len(out) :
                  out[k].kind \in GridKinds
                      => Len(out[k].text) = lastCall.width.n

(***************************************************************************)
(* C2.  add_row with as many values as there are columns does not raise    *)
(* and appends one row; with any other number of values it raises at the   *)
(* call and leaves the rows alone; a render never raises the arity error.  *)
(***************************************************************************)
C2_AddRowArity ==
    [][/\ lastCall'.op = "add_row"
          => IF lastCall'.nargs = Len(columns)
             THEN err' = "none" /\ Len(rows') = Len(rows) + 1
             ELSE err' = "Exception" /\ rows' = rows
       /\ lastCall'.op = "render" => err' # "Exception"]_vars

C2_Witness ==
    /\ lastCall.op = "add_row"
    /\ lastCall.nargs = Len(columns) + 1
    /\ err = "Exception"
    /\ Len(columns) >= 1
    /\ Len(rows) >= 1

(***************************************************************************)
(* C3.  Every stored row has exactly N elements, each the string form of   *)
(* the value given when the row was appended (the int 12 is stored as the  *)
(* two characters "1" "2"), and a rejected add_row leaves the list of rows *)
(* exactly as it was.                                                      *)
(***************************************************************************)
C3_RowsWellFormed ==
    /\ [](/\ Len(rows) = Len(given)
          /\ \A r \in 1..Len(rows) :
                /\ Len(rows[r]) = Len(columns)
                /\ \A i \in 1..Len(rows[r]) :
                      /\ rows[r][i] = str(given[r][i])
                      /\ given[r][i] = IntVal(12) => rows[r][i] = <<"1", "2">>
                      /\ given[r][i].t = "str" => rows[r][i] = given[r][i].s)
    /\ [][(lastCall'.op = "add_row" /\ err' # "none") => rows' = rows]_vars

C3_Witness ==
    /\ Len(rows) = MaxRows
    /\ Len(columns) = MaxCols
    /\ \E r \in 1..Len(rows) : given[r][2] = IntVal(12)
    /\ lastCall.op = "add_row"
    /\ err = "Exception"

(***************************************************************************)
(* C4.  Render has no side effect on the table: after a render call, on    *)
(* any console, name, columns, rows and the selected box style are what    *)
(* they were before the call.                                              *)
(***************************************************************************)
C4_RenderNoSideEffect ==
    [][lastCall'.op = "render"
          => /\ name' = name
             /\ columns' = columns
             /\ rows' = rows
             /\ box' = box]_vars

(***************************************************************************)
(* C5.  Idempotence: a render that repeats the call before it (same width, *)
(* same console, no add_row in between) returns the same string.           *)
(***************************************************************************)
C5_RenderIdempotent ==
    [][(/\ lastCall'.op = "render"
        /\ again'
        /\ err = "none"
        /\ err' = "none")
          => out' = out]_vars

C5_Witness ==
    /\ Rendered
    /\ again
    /\ rows # <<>>
    /\ box = "ASCII"
    /\ ~lastCall.is_terminal
    /\ LineOfKind(out, "top").text[1] = "+"

(***************************************************************************)
(* C6.  ASCII downgrade: on a console that is not a terminal or is a dumb  *)
(* terminal, a table whose box style is not ASCII-safe is rendered with    *)
(* the ASCII box, and every border glyph of the output is a 7-bit          *)
(* character; a box style that is ASCII-safe is kept as it is.             *)
(***************************************************************************)
C6_AsciiDowngrade ==
    [][lastCall'.op = "render"
          => /\ ((~lastCall'.is_terminal \/ lastCall'.is_dumb)
                    /\ ~BoxOf(box).ascii)
                   => /\ box' = "ASCII"
                      /\ err' = "none"
                            => /\ BorderGlyphs7Bit(out', max_lengths')
                               /\ LineOfKind(out', "top").text[1] = "+"
             /\ BoxOf(box).ascii
                   => /\ box' = box
                      /\ err' = "none"
                            => /\ BorderGlyphs7Bit(out', max_lengths')
                               /\ LineOfKind(out', "top").text[1]
                                      = BoxOf(box).top_left]_vars

C6_Witness ==
    /\ Rendered
    /\ ~lastCall.is_terminal
    /\ ~again
    /\ box = "ASCII"
    /\ Len(rows) = MaxRows
    /\ Len(columns) = MaxCols
    /\ \A i \in 1..Len(max_lengths) : max_lengths[i] >= 1
    /\ LineOfKind(out, "row").text[1] = "|"

(***************************************************************************)
(* C7.  Rendering a table with no row (and at least one column) never      *)
(* raises, and the output is, in this order and with nothing else: the     *)
(* name line, the top border, the header line(s), the header separator,    *)
(* the bottom border.                                                      *)
(***************************************************************************)
C7_EmptyTable ==
    (lastCall.op = "render" /\ rows = <<>> /\ NCols >= 1)
        => /\ err = "none"
           /\ \E h \in 1..(Len(out) - 4) :
                 KindsOf(out) = <<"name", "top">> \o [k \in 1..h |-> "head"]
                                    \o <<"head_row", "bottom">>

C9_SpecOverhead ==
    (lastCall.op = "render" /\ lastCall.width.some /\ NCols >= 1)
        => SumSeq(max_lengths) + (2 + 3 * (NCols - 1)) = lastCall.width.n

(***************************************************************************)
(* C9, amended.  With a target width W >= 0, sum(widths) + border overhead *)
(* = W, where the border overhead is 4 + 3 * (N - 1), N >= 1.              *)
(***************************************************************************)
C9_TargetWidth ==
    (/\ lastCall.op = "render"
     /\ lastCall.width.some
     /\ lastCall.width.n >= 0
     /\ NCols >= 1)
        => /\ Len(max_lengths) = NCols
           /\ SumSeq(max_lengths) + (4 + 3 * (NCols - 1)) = lastCall.width.n

C9_Witness ==
    /\ Rendered
    /\ lastCall.width = Some(MaxWidth)
    /\ NCols = MaxCols
    /\ Len(rows) >= 1
    /\ \A i \in 1..NCols : max_lengths[i] >= 1

ZoneLine(left, fill, divider, right, ws) ==
    LET total == SumSeq(ws) + 3 * Len(ws) + 1
        inner == {SumSeq(SubSeq(ws, 1, i)) + 3 * i + 1 : i \in 1..(Len(ws) - 1)}
    IN List([j \in 1..total |->
                IF j = 1 THEN left
                ELSE IF j = total THEN right
                ELSE IF j \in inner THEN divider
                ELSE fill])

\* a header or body line: left glyph, space, the cells joined by space +
\* vertical glyph + space, space, right glyph
FramedLine(text, left, vertical, right, ws) ==
    LET total == SumSeq(ws) + 3 * Len(ws) + 1
        inner == {SumSeq(SubSeq(ws, 1, i)) + 3 * i + 1 : i \in 1..(Len(ws) - 1)}
    IN /\ Len(text) = total
       /\ text[1] = left /\ text[2] = SP
       /\ text[total - 1] = SP /\ text[total] = right
       /\ \A j \in inner :
             text[j - 1] = SP /\ text[j] = vertical /\ text[j + 1] = SP

(***************************************************************************)
(* C11.  In a rendered table whose columns are all at least one character  *)
(* wide, the top border, the header separator, every row separator and the *)
(* bottom border are each: the zone's left glyph, the zone's fill glyph     *)
(* (column width + 2) times per column, joined by the zone's divider, the  *)
(* zone's right glyph; every header and body line that is drawn is left    *)
(* glyph, space, the cells joined by space + vertical glyph + space,       *)
(* space, right glyph.                                                     *)
(***************************************************************************)
C11_BorderLines ==
    (Rendered /\ \A i \in 1..NCols : max_lengths[i] >= 1)
        => LET b == BoxOf(box)
               ws == max_lengths
           IN \A k \in 1..Len(out) :
                 LET text == out[k].text
                     kind == out[k].kind
                 IN /\ kind = "top"
                          => text = ZoneLine(b.top_left, b.top,
                                             b.top_divider, b.top_right, ws)
                    /\ kind = "head_row"
                          => text = ZoneLine(b.head_row_left,
                                             b.head_row_horizontal,
                                             b.head_row_cross,
                                             b.head_row_right, ws)
                    /\ kind = "row"
                          => text = ZoneLine(b.row_left, b.row_horizontal,
                                             b.row_cross, b.row_right, ws)
                    /\ kind = "bottom"
                          => text = ZoneLine(b.bottom_left, b.bottom,
                                             b.bottom_divider,
                                             b.bottom_right, ws)
                    /\ (kind = "head" /\ text # <<>>)
                          => FramedLine(text, b.head_left, b.head_vertical,
                                        b.head_right, ws)
                    /\ (kind = "body" /\ text # <<>>)
                          => FramedLine(text, b.mid_left, b.mid_vertical,
                                        b.mid_right, ws)

\* the wrapped lines of each column of the header (r = 0) or of row r, before
\* the fill
OwnLines(r) ==
    IF r = 0
    THEN List([i \in 1..NCols |-> ChunkedHeaderCell(columns[i], max_lengths[i])])
    ELSE List([i \in 1..NCols |-> ChunkedRowCell(rows[r][i], max_lengths[i])])

(***************************************************************************)
(* C12.  Rectangularity: in a render with every column at least one        *)
(* character wide, the wrapped header and every wrapped data row have, in  *)
(* every column, the same number of visual lines, the number of the        *)
(* column that wraps into the most lines; every line is as wide as its     *)
(* column, and the lines added below a shorter column are blank.           *)
(***************************************************************************)
C12_Rectangular ==
    (Rendered /\ \A i \in 1..NCols : max_lengths[i] >= 1)
        => /\ Len(wrapped) = 1 + Len(rows)
           /\ \A r \in 0..Len(rows) :
                 LET cells == wrapped[r + 1]
                     own == OwnLines(r)
                 IN /\ Len(cells) = NCols
                    /\ \A i, j \in 1..NCols : Len(cells[i]) = Len(cells[j])
                    /\ \A i \in 1..NCols :
                          /\ Len(cells[i]) >= Len(own[i])
                          /\ \E j \in 1..NCols : Len(cells[i]) = Len(own[j])
                          /\ \A k \in 1..Len(cells[i]) :
                                /\ Len(cells[i][k]) = max_lengths[i]
                                /\ k <= Len(own[i]) => cells[i][k] = own[i][k]
                                /\ k > Len(own[i])
                                      => \A c \in 1..max_lengths[i] :
                                            cells[i][k][c] = SP
                    /\ CountKind(out, "head") >= Len(wrapped[1][1])

C12_Witness ==
    /\ Rendered
    /\ NCols = MaxCols
    /\ Len(rows) = MaxRows
    /\ \A i \in 1..NCols : max_lengths[i] >= 1
    /\ \E r \in 0..Len(rows) :
          /\ Len(OwnLines(r)[1]) > Len(OwnLines(r)[2])
          /\ Len(wrapped[r + 1][2]) = Len(OwnLines(r)[1])
    /\ \E r \in 1..Len(rows) : Len(wrapped[r + 1][1]) = 0

RECURSIVE rstrip(_)
\* a line without the spaces at its right end
rstrip(s) ==
    IF s # <<>> /\ s[Len(s)] = SP THEN rstrip(SubSeq(s, 1, Len(s) - 1)) ELSE s

\* a text without its newline characters
WithoutNewlines(s) == SelectSeq(s, LAMBDA c : c # NL)

(***************************************************************************)
(* C13.  Wrapping round-trip: in a render with every column at least one   *)
(* character wide, the wrapped lines of every data cell, each without its  *)
(* right padding and concatenated in order, are the cell's text without    *)
(* its newline characters: no character is lost, duplicated or reordered.  *)
(* (No cell text of the model holds a space, so the spaces at the right    *)
(* end of a line are its padding.)                                         *)
(***************************************************************************)
C13_WrapRoundTrip ==
    (Rendered /\ \A i \in 1..NCols : max_lengths[i] >= 1)
        => \A r \in 1..Len(rows) :
              \A i \in 1..NCols :
                 LET ls == wrapped[r + 1][i]
                 IN Concat(List([k \in 1..Len(ls) |-> rstrip(ls[k])]))
                        = WithoutNewlines(rows[r][i])

C13_Witness ==
    /\ Rendered
    /\ \A i \in 1..NCols : max_lengths[i] >= 1
    /\ \E r \in 1..Len(rows) :
          \E i \in 1..NCols :
             /\ \E c \in 1..Len(rows[r][i]) : rows[r][i][c] = NL
             /\ max_lengths[i] = 2
             /\ Len(rows[r][i]) > 2 * 2
             /\ Len(wrapped[r + 1][i]) = 4

\* a paragraph cut into consecutive chunks of exactly w characters, the last
\* one possibly shorter; an empty paragraph is one empty line
ParagraphChunks(p, w) ==
    IF p = <<>> THEN <<<<>>>>
    ELSE List([k \in 1..((Len(p) + w - 1) \div w) |->
                  SubSeq(p, (k - 1) * w + 1,
                         IF k * w < Len(p) THEN k * w ELSE Len(p))])

\* the lines of a text in a column of width w: split on newlines, each
\* paragraph cut into chunks, every line padded to w characters
WrapLines(text, w) ==
    LET paragraphs == splitlines(text)
        ls == Concat(List([k \in 1..Len(paragraphs) |->
                              ParagraphChunks(paragraphs[k], w)]))
    IN List([k \in 1..Len(ls) |-> ljust(ls[k], w)])

\* whether a wrapped column is the lines of the text, then blank lines only
WrappedAs(got, text, w) ==
    LET expected == WrapLines(text, w)
    IN /\ Len(got) >= Len(expected)
       /\ SubSeq(got, 1, Len(expected)) = expected
       /\ \A k \in (Len(expected) + 1)..Len(got) : got[k] = Repeat(SP, w)

(***************************************************************************)
(* C14.  In a render with every column at least one character wide, every  *)
(* header label and every data cell is wrapped alike: the text is split on *)
(* newlines into paragraphs, each paragraph is cut into consecutive chunks *)
(* of exactly W characters (only the last one may be shorter), an empty    *)
(* paragraph gives one blank line, and every line is right-padded to W     *)
(* characters.                                                             *)
(***************************************************************************)
C14_WrapAlike ==
    (Rendered /\ \A i \in 1..NCols : max_lengths[i] >= 1)
        => /\ \A i \in 1..NCols :
                 WrappedAs(wrapped[1][i], columns[i], max_lengths[i])
           /\ \A r \in 1..Len(rows) :
                 \A i \in 1..NCols :
                    WrappedAs(wrapped[r + 1][i], rows[r][i], max_lengths[i])

(***************************************************************************)
(* C15.  No table with an empty list of columns exists: none is there      *)
(* after construction, and none is the receiver of an add_row or a render  *)
(* call.                                                                   *)
(***************************************************************************)
C15_NoEmptyColumns == NCols >= 1

(***************************************************************************)
(* Table.to_csv                                                            *)
(***************************************************************************)
DQ == "\""
CR == "\r"

\* s.find(sub): the first index (from 0) where sub starts in s, or -1
find(s, sub) ==
    LET hits == {i \in 1..(Len(s) - Len(sub) + 1) :
                    SubSeq(s, i, i + Len(sub) - 1) = sub}
    IN IF hits = {} THEN 0 - 1
       ELSE (CHOOSE i \in hits : \A j \in hits : i <= j) - 1

RECURSIVE replace(_, _, _)
\* s.replace(old, new), old not empty
replace(s, old, new) ==
    IF Len(s) < Len(old) THEN s
    ELSE IF SubSeq(s, 1, Len(old)) = old
         THEN new \o replace(SubSeq(s, Len(old) + 1, Len(s)), old, new)
         ELSE <<Head(s)>> \o replace(Tail(s), old, new)

\* Renderable._csv_escape_string: the double quote is doubled, whatever the
\* quote character of the to_csv call is
_csv_escape_string(string) == replace(string, <<DQ>>, <<DQ, DQ>>)

\* one field of a record: (test) and "%s%s%s" % (...) or _col
CsvField(_col, delimiter, quotechar, lineterminator) ==
    LET quoted == quotechar \o _csv_escape_string(_col) \o quotechar
    IN IF (\/ find(_col, delimiter) # 0 - 1
           \/ find(_col, quotechar) # 0 - 1
           \/ find(_col, lineterminator) # 0 - 1) /\ quoted # <<>>
       THEN quoted
       ELSE _col

CsvRecord(fields, delimiter, quotechar, lineterminator) ==
    Join(delimiter,
         List([i \in 1..Len(fields) |->
                  CsvField(fields[i], delimiter, quotechar, lineterminator)]))

to_csv(delimiter, quotechar, lineterminator) ==
    /\ lastCall' = [op |-> "to_csv", delimiter |-> delimiter,
                    quotechar |-> quotechar, lineterminator |-> lineterminator]
    /\ again' = FALSE
    /\ err' = "none"
    /\ out' = <<[kind |-> "csv",
                 text |-> Join(lineterminator,
                     <<CsvRecord(columns, delimiter, quotechar, lineterminator)>>
                     \o [r \in 1..Len(rows) |->
                            CsvRecord(rows[r], delimiter, quotechar,
                                      lineterminator)])]>>
    /\ max_lengths' = <<>>
    /\ wrapped' = <<>>
    /\ UNCHANGED <<name, columns, rows, box, given, _raised, return_value>>

\* the column labels and the values of the tables exported as CSV
CsvLabel(i) ==
    IF i % 2 = 1 THEN <<"a", DQ, "b", ";", "'">> ELSE <<"c", CR, NL, "d">>

CsvColumnLists == {[i \in 1..n |-> CsvLabel(i)] : n \in 0..MaxCols}

CsvValues ==
    <<StrVal(<<"e", "'", "'", "f">>), IntVal(12), StrVal(<<DQ>>),
      StrVal(<<>>), StrVal(<<",", "g">>), StrVal(<<"h", NL>>)>>

\* the argument lists of add_row: the values in turn, from the first or
\* from the fourth
CsvArgLists ==
    UNION {{[i \in 1..n |-> CsvValues[((i - 1) % Len(CsvValues)) + 1]],
            [i \in 1..n |-> CsvValues[((i + 2) % Len(CsvValues)) + 1]]}
           : n \in 0..(MaxCols + 1)}

Delimiters == {<<",">>, <<";">>}
Quotechars == {<<DQ>>, <<"'">>}
Lineterminators == {<<NL>>, <<CR, NL>>}

InitCsv ==
    /\ name \in Names
    /\ columns \in CsvColumnLists
    /\ rows = <<>>
    /\ box = "SQUARE"
    /\ given = <<>>
    /\ lastCall = NoCall
    /\ again = FALSE
    /\ err = "none"
    /\ out = <<>>
    /\ max_lengths = <<>>
    /\ wrapped = <<>>
    /\ _raised = FALSE
    /\ return_value = PyNone

AddRowCsv == \E args \in CsvArgLists : add_row(args)

ToCsv ==
    \E delimiter \in Delimiters, quotechar \in Quotechars,
       lineterminator \in Lineterminators :
        to_csv(delimiter, quotechar, lineterminator)

NextCsv == AddRowCsv \/ ToCsv

SpecCsv == InitCsv /\ [][NextCsv]_vars

\* a field as the claim has it: quoted if and only if it holds the
\* delimiter, the quote character or the line terminator, the quote
\* character doubled inside the quotes
QuotedField(field, delimiter, quotechar, lineterminator) ==
    IF \/ find(field, delimiter) >= 0
       \/ find(field, quotechar) >= 0
       \/ find(field, lineterminator) >= 0
    THEN quotechar \o replace(field, quotechar, quotechar \o quotechar)
         \o quotechar
    ELSE field

QuotedRecord(fields, delimiter, quotechar, lineterminator) ==
    Join(delimiter,
         List([i \in 1..Len(fields) |->
                  QuotedField(fields[i], delimiter, quotechar,
                              lineterminator)]))

(***************************************************************************)
(* C16.  to_csv(delimiter, quotechar, lineterminator) returns the header   *)
(* record and one record per row, joined by the line terminator; the       *)
(* fields of a record are joined by the delimiter; a field is wrapped in   *)
(* the quote character if and only if it holds the delimiter, the quote    *)
(* character or the line terminator, every quote character inside a       *)
(* quoted field is doubled, and any other field is emitted as it is.       *)
(***************************************************************************)
C16_CsvQuoting ==
    lastCall.op = "to_csv"
        => LET d == lastCall.delimiter
               q == lastCall.quotechar
               lt == lastCall.lineterminator
           IN /\ err = "none"
              /\ out = <<[kind |-> "csv",
                          text |-> Join(lt,
                              <<QuotedRecord(columns, d, q, lt)>>
                              \o [r \in 1..Len(rows) |->
                                     QuotedRecord(rows[r], d, q, lt)])]>>

(***************************************************************************)
(* jycli/style.py: Style and parse.  A field of a Style is None or the     *)
(* code of an effect or a colour, a string.  The calls on the style module *)
(* are recorded in lastCall, err and out; the table stays as constructed.  *)
(***************************************************************************)
NoneStr == [some |-> FALSE, v |-> <<>>]
SomeStr(v) == [some |-> TRUE, v |-> v]

\* the escape character, "\033"
ESC == "u001B"
TAB == "\t"

\* STYLES, with the names bold, reset, red and white of its tables
STYLES ==
    [effects |->
         (<<"b", "o", "l", "d">> :> <<"1">>)
         @@ (<<"r", "e", "s", "e", "t">> :> <<"0">>),
     foreground |->
         (<<"r", "e", "d">> :> <<"3", "1">>)
         @@ (<<"w", "h", "i", "t", "e">> :> <<"3", "7">>)
         @@ (<<"r", "e", "s", "e", "t">> :> <<"3", "9">>),
     background |->
         (<<"r", "e", "d">> :> <<"4", "1">>)
         @@ (<<"w", "h", "i", "t", "e">> :> <<"4", "7">>)
         @@ (<<"r", "e", "s", "e", "t">> :> <<"4", "9">>)]

\* d.get(key, None)
get(d, key) == IF key \in DOMAIN d THEN SomeStr(d[key]) ELSE NoneStr

\* a Style object, by its three attributes
StyleObject(effect, foreground, background) ==
    [effect |-> effect, foreground |-> foreground, background |-> background]

\* Style.__init__ with names (or None) as arguments: the object, or the
\* ValueError of a name that is not in its table
Style(effect, foreground, background) ==
    LET e == IF effect.some THEN get(STYLES.effects, effect.v) ELSE NoneStr
        f == IF foreground.some THEN get(STYLES.foreground, foreground.v)
             ELSE NoneStr
        b == IF background.some THEN get(STYLES.background, background.v)
             ELSE NoneStr
    IN IF \/ effect.some /\ ~e.some
          \/ foreground.some /\ ~f.some
          \/ background.some /\ ~b.some
       THEN [err |-> "ValueError", style |-> StyleObject(NoneStr, NoneStr, NoneStr)]
       ELSE [err |-> "none", style |-> StyleObject(e, f, b)]

\* Style()
EmptyStyle == StyleObject(NoneStr, NoneStr, NoneStr)

\* a sum in which the left operand's attribute wins
__add___selfWins(self, other) ==
    [attr \in {"effect", "foreground", "background"} |->
        IF self[attr].some THEN self[attr]
        ELSE IF other[attr].some THEN other[attr]
        ELSE NoneStr]

\* Style.__add__ for another Style: a new object, final_style
__add__(self, other) ==
    [attr \in {"effect", "foreground", "background"} |->
        IF other[attr].some THEN other[attr]
        ELSE IF self[attr].some THEN self[attr]
        ELSE NoneStr]

\* Style.__eq__ for another Style
__eq__(self, other) ==
    \A attr \in {"effect", "foreground", "background"} :
        self[attr] = other[attr]

\* a string with the codes in the order foreground, effect, background
__str___foregroundFirst(self) ==
    IF ~self.effect.some /\ ~self.foreground.some /\ ~self.background.some
    THEN <<>>
    ELSE LET fields == <<self.foreground, self.effect, self.background>>
             codes == SelectSeq(fields, LAMBDA _style : _style.some)
         IN <<ESC, "[">>
            \o Join(<<";">>, List([k \in 1..Len(codes) |-> codes[k].v]))
            \o <<"m">>

\* Style.__str__
__str__(self) ==
    IF ~self.effect.some /\ ~self.foreground.some /\ ~self.background.some
    THEN <<>>
    ELSE LET fields == <<self.effect, self.foreground, self.background>>
             codes == SelectSeq(fields, LAMBDA _style : _style.some)
         IN <<ESC, "[">>
            \o Join(<<";">>, List([k \in 1..Len(codes) |-> codes[k].v]))
            \o <<"m">>

\* Style.escaped_str
escaped_str(self) == replace(__str__(self), <<ESC>>, <<"\\", "0", "3", "3">>)

Whitespace == {SP, NL, TAB, CR}

RECURSIVE lstrip(_)
lstrip(s) == IF s # <<>> /\ Head(s) \in Whitespace THEN lstrip(Tail(s)) ELSE s

RECURSIVE rstripWhitespace(_)
rstripWhitespace(s) ==
    IF s # <<>> /\ s[Len(s)] \in Whitespace
    THEN rstripWhitespace(SubSeq(s, 1, Len(s) - 1))
    ELSE s

\* s.strip()
strip(s) == rstripWhitespace(lstrip(s))

RECURSIVE split(_, _)
\* s.split(sep), sep not empty
split(s, sep) ==
    LET i == find(s, sep)
    IN IF i < 0 THEN <<s>>
       ELSE <<SubSeq(s, 1, i)>> \o split(SubSeq(s, i + Len(sep) + 1, Len(s)), sep)

ON == <<"o", "n">>

\* what is left of each text after one more "(name) ?" of style_regex
AfterName(texts) ==
    LET names == DOMAIN STYLES.effects \cup DOMAIN STYLES.foreground
    IN UNION {UNION {LET rest == SubSeq(t, Len(n) + 1, Len(t))
                     IN {rest} \cup (IF rest # <<>> /\ Head(rest) = SP
                                     THEN {Tail(rest)} ELSE {})
                     : n \in {m \in names : Len(m) <= Len(t)
                                            /\ SubSeq(t, 1, Len(m)) = m}}
              : t \in texts}

\* _re.match("^((effect|foreground) ?){0,2}(on (background))?$", text)
re_match(text) ==
    LET once == AfterName({text})
        twice == AfterName(once)
    IN \E rest \in {text} \cup once \cup twice :
          \/ rest = <<>>
          \/ \E bg \in DOMAIN STYLES.background : rest = ON \o <<SP>> \o bg

\* a single token looked up as a foreground colour first
SingleToken_foregroundFirst(token) ==
    IF get(STYLES.foreground, token).some
    THEN Style(NoneStr, SomeStr(token), NoneStr)
    ELSE IF get(STYLES.effects, token).some
    THEN Style(SomeStr(token), NoneStr, NoneStr)
    ELSE [err |-> "ValueError", style |-> EmptyStyle]

\* fg_style for a single token: an effect, or else a foreground colour
SingleToken(token) ==
    IF get(STYLES.effects, token).some
    THEN Style(SomeStr(token), NoneStr, NoneStr)
    ELSE IF get(STYLES.foreground, token).some
    THEN Style(NoneStr, SomeStr(token), NoneStr)
    ELSE [err |-> "ValueError", style |-> EmptyStyle]

\* parse(text): the Style, or the ValueError
parse(text0) ==
    LET text == strip(text0)
        failed == [err |-> "ValueError", style |-> EmptyStyle]
    IN IF ~re_match(text) THEN failed
       ELSE LET split_on == split(text, ON)
                tokens0 == List([k \in 1..Len(split_on) |-> strip(split_on[k])])
            IN IF Len(tokens0) > 2 THEN failed
               ELSE LET tokens == IF Len(tokens0) = 1 THEN tokens0 \o <<<<>>>>
                                  ELSE tokens0
                        split_sp == split(tokens[1], <<SP>>)
                        fg_tokens == List([k \in 1..Len(split_sp) |->
                                              strip(split_sp[k])])
                    IN IF Len(fg_tokens) > 2 THEN failed
                       ELSE LET fg_style ==
                                    IF Len(fg_tokens) = 1
                                    THEN (IF strip(fg_tokens[1]) # <<>>
                                          THEN SingleToken(fg_tokens[1])
                                          ELSE [err |-> "none",
                                                style |-> EmptyStyle])
                                    ELSE Style(SomeStr(fg_tokens[1]),
                                               SomeStr(fg_tokens[2]), NoneStr)
                                bg_style ==
                                    IF tokens[2] # <<>>
                                    THEN Style(NoneStr, NoneStr,
                                               SomeStr(tokens[2]))
                                    ELSE [err |-> "none", style |-> EmptyStyle]
                            IN IF fg_style.err # "none" THEN failed
                               ELSE IF bg_style.err # "none" THEN failed
                               ELSE [err |-> "none",
                                     style |-> __add__(fg_style.style,
                                                       bg_style.style)]

\* the Style objects: every attribute None or a code of its table
Styles ==
    LET codes(d) == {NoneStr} \cup {SomeStr(d[k]) : k \in DOMAIN d}
    IN {StyleObject(e, f, b) : e \in codes(STYLES.effects),
                               f \in codes(STYLES.foreground),
                               b \in codes(STYLES.background)}

\* the words a style string is made of: names of the tables, "on", a name
\* of no table, and a name with "on" stuck to it
Words ==
    DOMAIN STYLES.effects \cup DOMAIN STYLES.foreground
        \cup {ON, <<"z", "z">>, <<"r", "e", "d", "o", "n">>}

MaxWords == 4

WordLists == UNION {[1..n -> Words] : n \in 0..MaxWords}

InitStyle ==
    /\ name = <<>>
    /\ columns = <<>>
    /\ rows = <<>>
    /\ box = "SQUARE"
    /\ given = <<>>
    /\ lastCall = NoCall
    /\ again = FALSE
    /\ err = "none"
    /\ out = <<>>
    /\ max_lengths = <<>>
    /\ wrapped = <<>>
    /\ _raised = FALSE
    /\ return_value = PyNone

\* Style and parse keep no state between two calls: a behaviour makes one
\* call, on arguments of its choice
\* a + b, (a + b) + c, a + (b + c), a + Style() and Style() + a
StyleAdd ==
    /\ lastCall = NoCall
    /\ \E a \in Styles, b \in Styles, c \in Styles :
        /\ lastCall' = [op |-> "__add__", a |-> a, b |-> b, c |-> c]
        /\ err' = "none"
        /\ out' = [ab |-> __add__(a, b),
                   ab_c |-> __add__(__add__(a, b), c),
                   a_bc |-> __add__(a, __add__(b, c)),
                   a_empty |-> __add__(a, EmptyStyle),
                   empty_a |-> __add__(EmptyStyle, a),
                   self |-> a,
                   other |-> b]
        /\ UNCHANGED <<name, columns, rows, box, given, again, max_lengths,
                       wrapped, _raised, return_value>>

\* parse of the words joined by one space, with or without spaces around
StyleParse ==
    /\ lastCall = NoCall
    /\ \E words \in WordLists, pad \in {<<>>, <<SP>>} :
        LET text == pad \o Join(<<SP>>, words) \o pad
            result == parse(text)
        IN /\ lastCall' = [op |-> "parse", text |-> text, words |-> words]
           /\ err' = result.err
           /\ out' = IF result.err = "none"
                     THEN [style |-> result.style,
                           escaped |-> escaped_str(result.style)]
                     ELSE <<>>
           /\ UNCHANGED <<name, columns, rows, box, given, again, max_lengths,
                          wrapped, _raised, return_value>>

\* str(style) and style.escaped_str()
StyleStr ==
    /\ lastCall = NoCall
    /\ \E self \in Styles :
        /\ lastCall' = [op |-> "__str__", self |-> self]
        /\ err' = "none"
        /\ out' = [str |-> __str__(self), escaped |-> escaped_str(self)]
        /\ UNCHANGED <<name, columns, rows, box, given, again, max_lengths,
                       wrapped, _raised, return_value>>

NextStyle == StyleAdd \/ StyleParse \/ StyleStr

SpecStyle == InitStyle /\ [][NextStyle]_vars

(***************************************************************************)
(* C17.  Style combination is a monoid: Style() is a left and a right      *)
(* identity of +, + is associative, each attribute of a + b is b's when    *)
(* b's is not None and a's otherwise, and a and b are after the sum what   *)
(* they were before it.                                                    *)
(***************************************************************************)
C17_StyleMonoid ==
    lastCall.op = "__add__"
        => LET a == lastCall.a
               b == lastCall.b
           IN /\ err = "none"
              /\ __eq__(out.a_empty, a)
              /\ __eq__(out.empty_a, a)
              /\ __eq__(out.ab_c, out.a_bc)
              /\ \A attr \in {"effect", "foreground", "background"} :
                    out.ab[attr] = (IF b[attr] # NoneStr THEN b[attr]
                                    ELSE a[attr])
              /\ out.self = a
              /\ out.other = b

C17_Witness ==
    /\ lastCall.op = "__add__"
    /\ lastCall.a.effect = SomeStr(<<"1">>)
    /\ lastCall.b.effect = SomeStr(<<"0">>)
    /\ lastCall.a.foreground = SomeStr(<<"3", "7">>)
    /\ lastCall.b.foreground = NoneStr
    /\ lastCall.c.background = SomeStr(<<"4", "1">>)
    /\ out.ab = StyleObject(SomeStr(<<"0">>), SomeStr(<<"3", "7">>),
                            lastCall.b.background)
    /\ out.ab_c.background = SomeStr(<<"4", "1">>)

\* a name, or no name
NoName == NoneStr
OptionalNames(d) == {NoName} \cup {SomeStr(k) : k \in DOMAIN d}

\* the words of the style string "[effect] [foreground] [on background]"
StyleWords(effect, foreground, background) ==
    (IF effect.some THEN <<effect.v>> ELSE <<>>)
    \o (IF foreground.some THEN <<foreground.v>> ELSE <<>>)
    \o (IF background.some THEN <<ON, background.v>> ELSE <<>>)

(***************************************************************************)
(* C18.  As stated: for every effect, foreground and background name, each *)
(* present or not, parse of the string "[effect] [foreground]              *)
(* [on background]" returns a Style equal to Style(effect, foreground,     *)
(* background).                                                            *)
(***************************************************************************)
C18_ParseNamedFields ==
    lastCall.op = "parse"
        => \A effect \in OptionalNames(STYLES.effects),
              foreground \in OptionalNames(STYLES.foreground),
              background \in OptionalNames(STYLES.background) :
              lastCall.words = StyleWords(effect, foreground, background)
                  => /\ err = "none"
                     /\ __eq__(out.style,
                               Style(effect, foreground, background).style)

(***************************************************************************)
(* C18, amended.  The same, except for a foreground name that is also an   *)
(* effect name ("reset") given without an effect: the single word before   *)
(* "on" is then taken as the effect, and parse returns                     *)
(* Style(effect=name, background=background).                              *)
(***************************************************************************)
C18_ParseEffectFirst ==
    lastCall.op = "parse"
        => \A effect \in OptionalNames(STYLES.effects),
              foreground \in OptionalNames(STYLES.foreground),
              background \in OptionalNames(STYLES.background) :
              lastCall.words = StyleWords(effect, foreground, background)
                  => /\ err = "none"
                     /\ IF /\ ~effect.some
                           /\ foreground.some
                           /\ foreground.v \in DOMAIN STYLES.effects
                        THEN __eq__(out.style,
                                    Style(foreground, NoName, background).style)
                        ELSE __eq__(out.style,
                                    Style(effect, foreground, background).style)

C18_Witness ==
    /\ lastCall.op = "parse"
    /\ lastCall.text = <<"b", "o", "l", "d", " ", "w", "h", "i", "t", "e", " ",
                         "o", "n", " ", "r", "e", "d">>
    /\ err = "none"
    /\ out.style = StyleObject(SomeStr(<<"1">>), SomeStr(<<"3", "7">>),
                               SomeStr(<<"4", "1">>))

\* the names of the three tables of STYLES
KnownNames ==
    DOMAIN STYLES.effects \cup DOMAIN STYLES.foreground
        \cup DOMAIN STYLES.background

\* a malformed list of words: a word that is neither a known name nor "on",
\* more than two words before "on", more than one "on", or more than one
\* word after "on"
Malformed(words) ==
    LET ons == {k \in 1..Len(words) : words[k] = ON}
    IN \/ \E k \in 1..Len(words) : words[k] \notin KnownNames \cup {ON}
       \/ \E k \in ons : k - 1 > 2
       \/ Cardinality(ons) > 1
       \/ \E k \in ons : Len(words) - k > 1

(***************************************************************************)
(* C19.  parse raises ValueError and returns no Style for every malformed  *)
(* style string: one with an unknown name in any position, with more than  *)
(* two words before "on", with more than one "on", or with more than one   *)
(* word after "on".                                                        *)
(***************************************************************************)
C19_ParseRejects ==
    (lastCall.op = "parse" /\ Malformed(lastCall.words))
        => err = "ValueError" /\ out = <<>>

\* the escape sequence of the codes that are there, in the order effect,
\* foreground, background; nothing when there is no code
EscapeSequence(first, self) ==
    LET e == self.effect
        f == self.foreground
        b == self.background
    IN IF ~e.some /\ ~f.some /\ ~b.some THEN <<>>
       ELSE first \o <<"[">>
            \o (IF e.some THEN e.v ELSE <<>>)
            \o (IF e.some /\ (f.some \/ b.some) THEN <<";">> ELSE <<>>)
            \o (IF f.some THEN f.v ELSE <<>>)
            \o (IF f.some /\ b.some THEN <<";">> ELSE <<>>)
            \o (IF b.some THEN b.v ELSE <<>>)
            \o <<"m">>

(***************************************************************************)
(* C20.  A Style renders to the escape sequence ESC [ c1;c2;... m whose    *)
(* codes are its attributes that are not None, in the order effect,        *)
(* foreground, background, and to the empty string when the three are      *)
(* None; escaped_str is that string with the escape character written      *)
(* \033, so that parse("bold white on red").escaped_str() is               *)
(* \033[1;37;41m.                                                          *)
(***************************************************************************)
C20_EscapeSequence ==
    /\ lastCall.op = "__str__"
          => /\ out.str = EscapeSequence(<<ESC>>, lastCall.self)
             /\ out.escaped
                    = EscapeSequence(<<"\\", "0", "3", "3">>, lastCall.self)
    /\ (lastCall.op = "parse" /\ err = "none")
          => out.escaped = EscapeSequence(<<"\\", "0", "3", "3">>, out.style)

C20_Witness ==
    /\ lastCall.op = "__str__"
    /\ lastCall.self = StyleObject(SomeStr(<<"1">>), SomeStr(<<"3", "7">>),
                                   SomeStr(<<"4", "1">>))
    /\ out.str = <<ESC, "[", "1", ";", "3", "7", ";", "4", "1", "m">>
    /\ out.escaped = <<"\\", "0", "3", "3", "[", "1", ";", "3", "7", ";",
                       "4", "1", "m">>

(***************************************************************************)
(* Terminal size detection (console/commands.py) and                       *)
(* Console.get_terminal_size (console/__init__.py).                        *)
(***************************************************************************)
\* int(text) of a stripped text: [err, n]
IsDigits(s) ==
    s # <<>> /\ \A i \in 1..Len(s) : \E d \in 1..10 : DigitChars[d] = s[i]

DigitValue(c) == (CHOOSE d \in 1..10 : DigitChars[d] = c) - 1

RECURSIVE Number(_)
Number(s) ==
    IF s = <<>> THEN 0
    ELSE Number(SubSeq(s, 1, Len(s) - 1)) * 10 + DigitValue(s[Len(s)])

int(v) ==
    IF v.t = "int" THEN [err |-> "none", n |-> v.n]
    ELSE IF IsDigits(v.s) THEN [err |-> "none", n |-> Number(v.s)]
    ELSE [err |-> "ValueError", n |-> 0]

\* a cr tuple (lines, columns); None when a step found nothing
NoSize == <<>>
Cr(lines, cols) == <<lines, cols>>

\* class TerminalSize
TerminalSize(_columns, _lines) == [columns |-> _columns, lines |-> _lines]

\* cr[0] or cr[1] or cr[2]: the first one that is not None
FirstSize(crs) ==
    IF \E i \in 1..Len(crs) : crs[i] # NoSize
    THEN crs[CHOOSE i \in 1..Len(crs) :
                 /\ crs[i] # NoSize
                 /\ \A j \in 1..(i - 1) : crs[j] = NoSize]
    ELSE NoSize

\* what the detection steps find, in the order get_terminal_size asks:
\*   os_query  os.get_terminal_size(): a cr, or NoSize when it raises
\*   ioctl     ioctl_GWINSZ(0), (1), (2): a cr, or NoSize (None)
\*   ctermid   ioctl_GWINSZ on the controlling terminal: a cr or NoSize
\*             (None) once opened, OSError when it cannot be opened
\*   LINES, COLUMNS  the environment variables: a text, or NoneStr
\*   tput      what execute_command does for "lines" and for "cols": it
\*             prints a text, or raises (CalledProcessError with check=True,
\*             an IOException of ProcessBuilder.start)
OSError == [opened |-> FALSE, cr |-> NoSize]
Opened(cr) == [opened |-> TRUE, cr |-> cr]
Raises == [raises |-> TRUE, text |-> <<>>]
Prints(text) == [raises |-> FALSE, text |-> text]

\* commands.get_terminal_size: [err, size]
get_terminal_size(e) ==
    LET ioctl == FirstSize(e.ioctl)
        term == IF ioctl # NoSize THEN ioctl
                ELSE IF ~e.ctermid.opened THEN NoSize ELSE e.ctermid.cr
        environ ==
            IF term # NoSize THEN term
            ELSE IF ~e.LINES.some \/ ~e.COLUMNS.some THEN NoSize
            ELSE IF int(StrVal(e.LINES.v)).err # "none"
                    \/ int(StrVal(e.COLUMNS.v)).err # "none" THEN NoSize
            ELSE Cr(IntVal(int(StrVal(e.LINES.v)).n),
                    IntVal(int(StrVal(e.COLUMNS.v)).n))
        raised == environ = NoSize /\ \E i \in 1..2 : e.tput[i].raises
        tput ==
            IF environ # NoSize THEN environ
            ELSE Cr(StrVal(strip(e.tput[1].text)), StrVal(strip(e.tput[2].text)))
        cr == IF tput = NoSize \/ (\E i \in 1..2 : tput[i] = StrVal(<<>>))
              THEN Cr(IntVal(24), IntVal(DefaultColumns))
              ELSE tput
    IN IF e.os_query # NoSize
       THEN [err |-> "none",
             size |-> TerminalSize(e.os_query[2].n, e.os_query[1].n)]
       ELSE IF raised
       THEN [err |-> "CalledProcessError", size |-> TerminalSize(0, 0)]
       ELSE IF int(cr[1]).err # "none" \/ int(cr[2]).err # "none"
       THEN [err |-> "ValueError", size |-> TerminalSize(0, 0)]
       ELSE [err |-> "none",
             size |-> TerminalSize(int(cr[2]).n, int(cr[1]).n)]

\* Console.get_terminal_size
Console_get_terminal_size(_width, e) ==
    LET size == get_terminal_size(e)
    IN IF size.err # "none" THEN size
       ELSE [err |-> "none",
             size |-> TerminalSize(
                 get_terminal_size_columns(_width, size.size.columns),
                 size.size.lines)]

\* the sizes a step may find: each step its own, so that the step a size
\* comes from can be told
SizeOf(step) == Cr(IntVal(24), IntVal(80 + step))

Texts == {<<>>, <<"4", "0">>, <<"4", "0", NL>>, <<"n", "o">>}

Environments ==
    [os_query : {NoSize, SizeOf(0)},
     ioctl : {<<a, NoSize, c>> : a \in {NoSize, SizeOf(1)},
                                  c \in {NoSize, SizeOf(3)}},
     ctermid : {OSError, Opened(NoSize), Opened(SizeOf(4))},
     LINES : {NoneStr, SomeStr(<<"2", "4">>)},
     COLUMNS : {NoneStr, SomeStr(<<"4", "0">>), SomeStr(<<"n", "o">>)},
     tput : {<<l, c>> : l \in {Raises, Prints(<<"2", "4", NL>>),
                                Prints(<<>>)},
                        c \in {Raises} \cup {Prints(t) : t \in Texts}}]

InitSize == InitStyle

\* the detection keeps no state between two calls: a behaviour makes one
\* call of Console(width=width).get_terminal_size()
GetTerminalSize ==
    /\ lastCall = NoCall
    /\ \E e \in Environments, width \in {None, Some(MaxWidth), Some(0 - 1)} :
        LET result == Console_get_terminal_size(Console_width(width), e)
        IN /\ lastCall' = [op |-> "get_terminal_size", environment |-> e,
                           width |-> width]
           /\ err' = result.err
           /\ out' = IF result.err = "none" THEN result.size ELSE <<>>
           /\ UNCHANGED <<name, columns, rows, box, given, again, max_lengths,
                          wrapped, _raised, return_value>>

NextSize == GetTerminalSize

SpecSize == InitSize /\ [][NextSize]_vars

\* every detection step fails: the OS query raises, no ioctl answers, the
\* environment gives no two numbers, and tput raises or prints no number
EveryStepFails(e) ==
    /\ e.os_query = NoSize
    /\ FirstSize(e.ioctl) = NoSize
    /\ ~e.ctermid.opened \/ e.ctermid.cr = NoSize
    /\ \/ ~e.LINES.some \/ ~e.COLUMNS.some
       \/ ~IsDigits(e.LINES.v) \/ ~IsDigits(e.COLUMNS.v)
    /\ \E i \in 1..2 : e.tput[i].raises \/ ~IsDigits(strip(e.tput[i].text))

\* C21: terminal-size detection never fails: whatever detection steps fail,
\* get_terminal_size returns a size; when every step fails the size has 132
\* columns; an explicit Console width replaces the detected columns.
C21_DetectionNeverFails ==
    lastCall.op = "get_terminal_size" =>
        /\ err = "none"
        /\ EveryStepFails(lastCall.environment)
               /\ ~Console_width(lastCall.width).some
               => out.columns = DefaultColumns
        /\ Console_width(lastCall.width).some
               => out.columns = lastCall.width.n

(***************************************************************************)
(* Application (application.py): run() and the hooks it executes.          *)
(***************************************************************************)
\* is_boolean
is_boolean(value) ==
    \/ value.type # "str" /\ value.str \in {"True", "False"}
    \/ value.type = "bool"
    \/ value.type = "int"

\* a mutant: every falsy value but None is a failure
has_failed_falsy(self_return_value) ==
    IF self_return_value = PyNone THEN FALSE
    ELSE ~self_return_value.truthy

\* Application.has_failed
has_failed(self_return_value) ==
    IF self_return_value = PyNone \/ ~is_boolean(self_return_value)
    THEN FALSE
    ELSE ~self_return_value.truthy

\* what main() or a hook does: it returns a value or raises
Returns(value) == [raises |-> "none", value |-> value]
RaisesOf(exception) == [raises |-> exception, value |-> PyNone]

\* a mutant: the exception of a hook is not caught
_run_hook_propagates(hook, does) ==
    [hook |-> hook, caught |-> FALSE, propagates |-> does.raises # "none"]

\* Application._run_hook: the bare except catches whatever the hook raises
_run_hook(hook, does) ==
    [hook |-> hook, caught |-> does.raises # "none", propagates |-> FALSE]

\* the hooks one after the other, up to one whose exception propagates
RECURSIVE RunHooks(_, _)
RunHooks(order, hooks) ==
    IF order = <<>> THEN <<>>
    ELSE LET first == _run_hook(Head(order), hooks[Head(order)])
         IN IF first.propagates THEN <<first>>
            ELSE <<first>> \o RunHooks(Tail(order), hooks)

\* a mutant: the flag says whether this main() raised
RaisedAfter_thisRun(self_raised, main) == main.raises # "none"

\* self._raised after the try of run(): set when main() raised, and left as
\* it was otherwise
RaisedAfter(self_raised, main) ==
    IF main.raises # "none" THEN TRUE ELSE self_raised

\* a mutant: on_finish first
HookOrder_finishFirst(failed) ==
    <<"on_finish", IF failed THEN "on_failure" ELSE "on_success">>

\* run(): the hooks it executes, in this order
HookOrder(failed) ==
    <<IF failed THEN "on_failure" ELSE "on_success", "on_finish">>

\* Console.out, which Console.print ends with: a Console of this repository
\* calls style.get_reset_style(), which class Style does not have; a
\* subclass with an out of its own writes
Console_out(console) ==
    IF console = "Console" THEN "AttributeError" ELSE "none"

\* Application.run on an instance with the given _raised and return_value:
\* the two attributes afterwards, whether main() was called, the hooks
\* executed, whether the ApplicationWarning was printed, and how run() ends:
\* "returns", "SystemExit(1)" of sys.exit(1), "SystemExit" re-raised from
\* main(), or "raises" for any other exception
RunResult(self_raised, self_return_value, console, main, hooks) ==
    IF Console_out(console) # "none"
    THEN \* the divider is printed before main() is called
         [raised |-> self_raised, return_value |-> self_return_value,
          called |-> FALSE, executed |-> <<>>, warned |-> FALSE,
          exit |-> "raises"]
    ELSE IF main.raises = "SystemExit"
    THEN [raised |-> self_raised, return_value |-> self_return_value,
          called |-> TRUE, executed |-> <<>>, warned |-> FALSE,
          exit |-> "SystemExit"]
    ELSE LET raised == RaisedAfter(self_raised, main)
             value == IF main.raises = "none" THEN main.value
                      ELSE self_return_value
             failed == raised \/ has_failed(value)
             executed == RunHooks(HookOrder(failed), hooks)
         IN [raised |-> raised, return_value |-> value,
             called |-> TRUE, executed |-> executed,
             warned |-> ~raised /\ ~is_boolean(value),
             exit |-> IF executed[Len(executed)].propagates THEN "raises"
                      ELSE IF failed THEN "SystemExit(1)"
                      ELSE "returns"]

run(console, main, hooks) ==
    LET result == RunResult(_raised, return_value, console, main, hooks)
    IN /\ _raised' = result.raised
       /\ return_value' = result.return_value
       /\ lastCall' = [op |-> "run", console |-> console, main |-> main,
                       hooks |-> hooks]
       /\ err' = IF result.exit = "returns" THEN "none" ELSE result.exit
       /\ out' = [called |-> result.called, executed |-> result.executed,
                  warned |-> result.warned, exit |-> result.exit]
       /\ UNCHANGED <<name, columns, rows, box, given, again, max_lengths,
                      wrapped>>

\* what main() returns or raises, and what each hook does
MainValues ==
    {PyNone, PyTrue, PyFalse, PyValue("int", FALSE, "0"),
     PyValue("int", TRUE, "2"), PyValue("str", FALSE, ""),
     PyValue("str", TRUE, "False"), PyValue("float", FALSE, "0.0"),
     PyValue("numpy.bool_", FALSE, "False")}

Mains ==
    {Returns(v) : v \in MainValues}
        \cup {RaisesOf("Exception"), RaisesOf("SystemExit")}

HookNames == {"on_success", "on_failure", "on_finish"}

Hooks ==
    {h \in [HookNames -> {Returns(PyNone), RaisesOf("Exception"),
                          RaisesOf("SystemExit")}] :
        h["on_finish"].raises # "SystemExit"}

NoHookRaises == [h \in HookNames |-> Returns(PyNone)]

\* Application.__init__: _raised and return_value are the class attributes,
\* False and None
InitApp == InitStyle

\* the console the application holds: a Console, or an instance of a
\* subclass of Console whose out writes
AppConsoles == {"Console", "subclass"}

\* with a console that does not write neither main() nor a hook is called:
\* one main() and one choice of hooks stand for all
Run ==
    \E console \in AppConsoles, main \in Mains, hooks \in Hooks :
        /\ \/ Console_out(console) = "none"
           \/ main = Returns(PyTrue) /\ hooks = NoHookRaises
        /\ run(console, main, hooks)

NextApp == Run

SpecApp == InitApp /\ [][NextApp]_vars

(***************************************************************************)
(* Properties of Application.run.                                          *)
(***************************************************************************)
\* the last call is a run() whose main() was called
MainCalled == lastCall.op = "run" /\ out.called

\* ... and ended by returning or by raising something else than SystemExit
MainEnded == MainCalled /\ lastCall.main.raises # "SystemExit"

\* how often run() executed the hook
TimesExecuted(hook) ==
    Cardinality({i \in 1..Len(out.executed) : out.executed[i].hook = hook})

\* C22: whenever main() ends by returning or by raising an exception other
\* than SystemExit, run() executes exactly one of on_success / on_failure and
\* then on_finish: on_finish is the last hook executed and runs exactly once.
C22_HookOrder ==
    MainEnded =>
        /\ TimesExecuted("on_success") + TimesExecuted("on_failure") = 1
        /\ TimesExecuted("on_finish") = 1
        /\ out.executed[Len(out.executed)].hook = "on_finish"
        /\ Len(out.executed) = 2

\* main() raised, on_failure raised too, and on_finish came last
C22_Witness ==
    /\ MainEnded
    /\ lastCall.main.raises = "Exception"
    /\ lastCall.hooks["on_failure"].raises = "Exception"
    /\ [i \in 1..Len(out.executed) |-> out.executed[i].hook]
           = <<"on_failure", "on_finish">>

C24_FailingHook ==
    [][(/\ lastCall'.op = "run"
        /\ out'.called
        /\ lastCall'.main.raises # "SystemExit"
        /\ \E i \in 1..Len(out'.executed) :
              /\ out'.executed[i].hook \in {"on_success", "on_failure"}
              /\ lastCall'.hooks[out'.executed[i].hook].raises # "none")
       => /\ out'.executed[1].caught
          /\ Len(out'.executed) = 2
          /\ out'.executed[2].hook = "on_finish"
          /\ out'.exit = RunResult(_raised, return_value, lastCall'.console,
                                   lastCall'.main, NoHookRaises).exit
          /\ out'.exit = IF _raised' \/ has_failed(return_value')
                         THEN "SystemExit(1)" ELSE "returns"]_vars

\* on_success raised SystemExit, on_finish ran, and run() returned
C24_Witness ==
    /\ MainEnded
    /\ lastCall.hooks["on_success"].raises = "SystemExit"
    /\ out.executed[1] = [hook |-> "on_success", caught |-> TRUE,
                          propagates |-> FALSE]
    /\ out.executed[2].hook = "on_finish"
    /\ out.exit = "returns"

\* the failure path: on_failure, then on_finish, then exit status 1
FailurePath(o) ==
    /\ [i \in 1..Len(o.executed) |-> o.executed[i].hook]
           = <<"on_failure", "on_finish">>
    /\ o.exit = "SystemExit(1)"

MaxNatural == 3

\* a column list whose labels have the given lengths
ColumnsOfLengths(lens) == [i \in 1..Len(lens) |-> Repeat("x", lens[i])]

InitAdjust == InitStyle

\* lines 92-119 of table.py on a table without rows, for a max_width that
\* is a target width (target) and for one that is None at line 92, where
\* the widths start from the longest text of each column
adjust(cols, max_width, w) ==
    LET initial == InitialLengths(max_width, cols, <<>>)
        difference == Difference(initial, Len(cols), w)
    IN /\ lastCall' = [op |-> "adjust", initial |-> initial, width |-> w,
                       target |-> max_width.some]
       /\ max_lengths' = AdjustLengths(initial, difference)
       /\ UNCHANGED <<name, columns, rows, box, given, again, err, out,
                      wrapped, _raised, return_value>>

AdjustWidths == 0..(2 * MaxWidth)

AdjustTarget ==
    /\ lastCall = NoCall
    /\ \E n \in 1..(MaxCols + 1), w \in AdjustWidths :
          adjust(ColumnsOfLengths([i \in 1..n |-> 1]), Some(w), w)

AdjustNatural ==
    /\ lastCall = NoCall
    /\ \E n \in 1..(MaxCols + 1), w \in AdjustWidths :
          \E lens \in [1..n -> 0..MaxNatural] :
              adjust(ColumnsOfLengths(lens), None, w)

NextAdjust == AdjustTarget \/ AdjustNatural

SpecAdjust == InitAdjust /\ [][NextAdjust]_vars

\* fin is ws after d decrements of the column holding the maximum, the
\* lowest index first: the columns above a level are cut down to it, and of
\* the columns at the level the first ones are one below it
ReducedBy(ws, fin, d) ==
    /\ Len(fin) = Len(ws)
    /\ SumSeq(ws) - SumSeq(fin) = d
    /\ \E level \in (MinOf(ws) - d)..MaxOf(ws) :
          LET high == {i \in 1..Len(ws) : ws[i] >= level}
          IN /\ \A i \in 1..Len(ws) : i \notin high => fin[i] = ws[i]
             /\ \A i \in high : fin[i] \in {level, level - 1}
             /\ \A i \in high, j \in high :
                   i < j /\ fin[j] = level - 1 => fin[i] = level - 1

\* fin is ws after d increments of the column holding the minimum, the
\* lowest index first
IncreasedBy(ws, fin, d) ==
    /\ Len(fin) = Len(ws)
    /\ SumSeq(fin) - SumSeq(ws) = d
    /\ \E level \in MinOf(ws)..(MaxOf(ws) + d) :
          LET low == {i \in 1..Len(ws) : ws[i] <= level}
          IN /\ \A i \in 1..Len(ws) : i \notin low => fin[i] = ws[i]
             /\ \A i \in low : fin[i] \in {level, level + 1}
             /\ \A i \in low, j \in low :
                   i < j /\ fin[j] = level + 1 => fin[i] = level + 1

\* C25: with a target width W every column starts at floor(W / N); when
\* the difference sum(widths) + overhead - W is positive the column holding
\* the maximum is decremented exactly `difference` times, the lowest index
\* on ties; when it is negative the column holding the minimum is
\* incremented as many times, the lowest index on ties.
C25_AdjustmentSteps ==
    lastCall.op = "adjust" =>
        LET initial == lastCall.initial
            n == Len(initial)
            difference ==
                SumSeq(initial) + (SeparatorLen * (n - 1))
                    + (LeftEdgeLen + RightEdgeLen) - lastCall.width
        IN /\ lastCall.target =>
                 \A i \in 1..n :
                    /\ initial[i] * n <= lastCall.width
                    /\ lastCall.width < (initial[i] + 1) * n
           /\ difference > 0 => ReducedBy(initial, max_lengths, difference)
           /\ difference < 0 =>
                 IncreasedBy(initial, max_lengths, 0 - difference)
           /\ difference = 0 => max_lengths = initial

\* a target width that leaves the first column narrower than the last
C25_Witness ==
    /\ lastCall.op = "adjust"
    /\ lastCall.target
    /\ Len(max_lengths) = MaxCols
    /\ lastCall.initial[1] >= 2
    /\ max_lengths[1] >= 1
    /\ max_lengths[1] < max_lengths[MaxCols]

C27_StickyAscii ==
    [][/\ (/\ lastCall'.op = "render"
           /\ ~lastCall'.is_terminal \/ lastCall'.is_dumb
           /\ ~BoxOf(box).ascii)
              => box' = "ASCII"
       /\ box = "ASCII"
              => /\ box' = "ASCII"
                 /\ (lastCall'.op = "render" /\ err' = "none")
                       => /\ LineOfKind(out', "top").text
                                = ZoneLine(ASCII.top_left, ASCII.top,
                                           ASCII.top_divider, ASCII.top_right,
                                           max_lengths')
                          /\ LineOfKind(out', "bottom").text
                                = ZoneLine(ASCII.bottom_left, ASCII.bottom,
                                           ASCII.bottom_divider,
                                           ASCII.bottom_right, max_lengths')
                          /\ BorderGlyphs7Bit(out', max_lengths')]_vars

\* a render on a terminal that is not dumb, drawn with the ASCII box: no
\* table starts with that box, so an earlier render selected it
C27_Witness ==
    /\ Rendered
    /\ lastCall.is_terminal
    /\ ~lastCall.is_dumb
    /\ box = "ASCII"
    /\ NCols = MaxCols
    /\ \A i \in 1..NCols : max_lengths[i] >= 1
    /\ LineOfKind(out, "top").text[1] = "+"
    /\ LineOfKind(out, "head_row").text[1] = "|"

\* the positions in o of the lines of the given kind, in order
RECURSIVE PositionsOf(_, _, _)
PositionsOf(o, kind, k) ==
    IF k > Len(o) THEN <<>>
    ELSE (IF o[k].kind = kind THEN <<k>> ELSE <<>>)
         \o PositionsOf(o, kind, k + 1)

\* C28: every data row, also a row whose cells are all empty strings,
\* produces at least one body line framed by the left and the right border
\* glyph, so that at least R + (R - 1) lines lie between the header
\* separator and the bottom border of a table with R rows.
C28_RowBodyLines ==
    (Rendered /\ NCols >= 1 /\ Len(rows) >= 1) =>
        LET marks == PositionsOf(out, "head_row", 1)
                     \o PositionsOf(out, "row", 1)
                     \o PositionsOf(out, "bottom", 1)
        IN /\ Len(marks) = Len(rows) + 1
           /\ marks[Len(marks)] - marks[1] - 1 >= Len(rows) + (Len(rows) - 1)
           /\ \A r \in 1..Len(rows) :
                 \E k \in (marks[r] + 1)..(marks[r + 1] - 1) :
                    /\ out[k].kind = "body"
                    /\ Len(out[k].text) >= 2
                    /\ out[k].text[1] = BoxOf(box).mid_left
                    /\ out[k].text[Len(out[k].text)] = BoxOf(box).mid_right

(***************************************************************************)
(* Panel (components/panel.py).                                            *)
(***************************************************************************)
\* Panel.__init__: width is kept only when str(width).isdigit()
Panel_width(width) ==
    IF width.some /\ width.n >= 0 THEN Some(width.n) ELSE None

\* int(x / 2): the quotient without its fraction
HalfOf(x) == IF x >= 0 THEN x \div 2 ELSE 0 - ((0 - x) \div 2)

\* "%s" % style
StyleText(text) == __str__(parse(text).style)

\* header_content
PanelHeader(b, title, console_width) ==
    IF ~title.some THEN StrTimes(<<b.top>>, console_width - 2)
    ELSE LET padding_size == 2
             border_width ==
                 HalfOf(console_width - Len(title.v) - (padding_size * 2) - 2)
             extra_border_width == IF Len(title.v) % 2 = 1 THEN 1 ELSE 0
         IN StrTimes(<<b.top>>, border_width + extra_border_width)
            \o StrTimes(<<SP>>, padding_size)
            \o title.v
            \o StrTimes(<<SP>>, padding_size)
            \o StrTimes(<<b.top>>, border_width)

\* Panel.__console_print__: the lines of the string it returns
PanelLines(b, renderable, title, border_style, console_width) ==
    LET border == StyleText(border_style)
        reset == StyleText(<<"r", "e", "s", "e", "t">>)
        lines == splitlines(renderable)
    IN Item("top", <<border \o <<b.top_left>>
                     \o PanelHeader(b, title, console_width)
                     \o <<b.top_right>> \o reset>>)
       \o Item("body",
               List([k \in 1..Len(lines) |->
                        border \o <<b.mid_left>> \o reset \o <<SP>>
                        \o ljust(lines[k], console_width - 4)
                        \o <<SP>> \o border \o <<b.mid_right>> \o reset]))
       \o Item("bottom", <<border \o <<b.bottom_left>>
                           \o StrTimes(<<b.bottom>>, console_width - 2)
                           \o <<b.bottom_right>> \o reset>>)

\* Panel(renderable, title=, border_style=, width=, box=) printed on a
\* console whose own width is detected
Panel___console_print__(panel, console, detected) ==
    LET self_width == Panel_width(panel.width)
        console_width == IF self_width.some THEN self_width.n ELSE detected
        selected == SelectBox(panel.box, is_terminal(console),
                              is_dumb_terminal(console))
    IN /\ lastCall' = [op |-> "panel", panel |-> panel,
                       width |-> console_width,
                       is_terminal |-> is_terminal(console),
                       is_dumb |-> is_dumb_terminal(console)]
       /\ box' = selected
       /\ err' = "none"
       /\ out' = PanelLines(BoxOf(selected), panel.renderable, panel.title,
                            panel.border_style, console_width)
       /\ UNCHANGED <<name, columns, rows, given, again, max_lengths,
                      wrapped, _raised, return_value>>

\* the panels of the model
PanelTitles == {NoneStr, SomeStr(<<"a", "b">>), SomeStr(<<"a", "b", "c">>)}
PanelTexts == {<<"x", NL, "y", "z">>, <<"x", "y", "z", "x", "y", "z", "x">>}
PanelStyles == {<<>>, <<"r", "e", "d">>}
PanelWidths == {Some(n) : n \in MinWidth..(MaxWidth + 4)} \cup {None}

Panels ==
    [renderable : PanelTexts, title : PanelTitles,
     border_style : PanelStyles, width : PanelWidths, box : BoxNames]

InitPanel == InitStyle

\* a panel is built and printed once
PanelPrint ==
    /\ lastCall = NoCall
    /\ \E panel \in Panels, console \in Consoles :
          Panel___console_print__(panel, console, MaxWidth + 1)

NextPanel == PanelPrint

SpecPanel == InitPanel /\ [][NextPanel]_vars

\* a text without its style escape sequences (ESC [ codes m)
RECURSIVE Visible(_)
Visible(s) ==
    IF s = <<>> THEN <<>>
    ELSE IF Head(s) = ESC
    THEN LET m == CHOOSE k \in 1..(Len(s) + 1) :
                      /\ k = Len(s) + 1 \/ s[k] = "m"
                      /\ \A j \in 1..(k - 1) : s[j] # "m"
         IN Visible(SubSeq(s, m + 1, Len(s)))
    ELSE <<Head(s)>> \o Visible(Tail(s))

\* C29: every line of a rendered Panel has the same visible length, the
\* panel width, style escape sequences left out: the top line with or
\* without title, each body line whose text is at most width - 4 characters
\* and the bottom line, for every width and every title with
\* width >= len(title) + 6, whatever the parity of the width and of the title
\* length.
C29_PanelLineLengths ==
    (/\ lastCall.op = "panel"
     /\ lastCall.width >= 4
     /\ lastCall.panel.title.some
           => lastCall.width >= Len(lastCall.panel.title.v) + 6)
        => LET lines == splitlines(lastCall.panel.renderable)
           IN /\ Len(out) = Len(lines) + 2
              /\ out[1].kind = "top"
              /\ Len(Visible(out[1].text)) = lastCall.width
              /\ out[Len(out)].kind = "bottom"
              /\ Len(Visible(out[Len(out)].text)) = lastCall.width
              /\ \A k \in 1..Len(lines) :
                    Len(lines[k]) <= lastCall.width - 4
                        => Len(Visible(out[k + 1].text)) = lastCall.width
====
